---- MODULE Spec2Model ----
(***************************************************************************)
(* A model of the smalllang front-end data structures: the OrderedDict    *)
(* symbol dictionary, the AstNode kind classification, the Ast node arena  *)
(* (src/ast.hpp), and the IdCache interner and the Lexer as far as their   *)
(* tests and the specification describe them.                              *)
(*                                                                         *)
(* Each component has its own variables, its own initial state and its own *)
(* specification (SpecDict, SpecKind, SpecAst, SpecIdCache, SpecLexer); a  *)
(* specification leaves the variables of the other components alone.       *)
(* SpecAstLife is the arena up to its destruction, SpecFunType a function- *)
(* type node written and read back, SpecScope a scope node and its         *)
(* dictionary, and SpecParser the function-declaration production of the   *)
(* Parser, which builds its nodes in the arena.                            *)
(*                                                                         *)
(* The arena is used under its caller contract: remove and the node        *)
(* writers are called on live handles only (handles create returned and    *)
(* remove has not been called on since), and a node is written through the *)
(* members of its own kind.                                                *)
(***************************************************************************)
EXTENDS Integers, Sequences, FiniteSets, TLC

VARIABLES
  dict,      \* OrderedDict under test: [m_map, m_nodes]
  calls,     \* history: the append calls made on dict, in call order
  found      \* history: the find call made since the last append, [name, ret]

dictVars == <<dict, calls, found>>

VARIABLES
  ckind,     \* the kind of the AstNode being classified
  cres       \* the results of the predicate calls made on it so far

kindVars == <<ckind, cres>>

VARIABLES
  nodes,     \* Ast::nodes, the node store; handle i is nodes[i + 1]
  removed,   \* Ast::removed, the free list of handles
  vectors,   \* the heap: every std::vector allocated by a node; a pointer
             \* is a position in this sequence and 0 is nullptr
  dicts,     \* the heap: every OrderedDict allocated by a node, likewise
  astcall,   \* history: the last call if it was a create or a remove,
             \* [op, index, kind, reused]
  live,      \* history: the handles create returned and remove has not
             \* been called on since
  ncalls,    \* history: the number of calls made on the arena and its nodes
  fresh      \* history: the number of create calls made while the free
             \* list was empty

astVars == <<nodes, removed, vectors, dicts, astcall, live, ncalls, fresh>>

VARIABLES
  wrote      \* history: what was written to each node through the members
             \* of fun_type, [name, return_type, params]; handle i is
             \* wrote[i + 1]

funVars == <<wrote>>

VARIABLES
  decl,      \* Parser: the parameters of the function declaration parsed,
             \* in source order, [type, name]
             \* (an undefined name: the identifier is missing)
  pstate,    \* Parser: where parse() is: "start", "type", "name", "init",
             \* "register", "done", "error"
  nparsed,   \* Parser: the number of parameters registered
  fun_idx,   \* Parser: the handle of the Function node built
  type_idx,  \* Parser: the handle of the parameter type parsed last
  var_idx    \* Parser: the handle of the LocalVariable node built last

parseVars == <<decl, pstate, nparsed, fun_idx, type_idx, var_idx>>

VARIABLES
  m_ids,     \* IdCache: the interned texts; handle i denotes m_ids[i + 1]
  issued,    \* history: [text, index] of every get(text, length) call made
  idcall     \* history: the last IdCache call, [op, index, str, length]

idVars == <<m_ids, issued, idcall>>

VARIABLES
  input,     \* Lexer: the characters of the stream
  pos,       \* Lexer: the number of characters consumed
  tokens,    \* Lexer::Tokens: the storage of the tokens produced; a token's
             \* identity is its position here, and 0 is the lexer's one
             \* end-of-input token
  m_last,    \* Lexer: the identity of the token last produced (-1: none)
  failed,    \* Lexer: a lexical error ended the tokenization
  lexret,    \* history: the last Lexer call and the token it returned,
             \* [op, token]
  nextret,   \* history: the token the last next() call returned (-1: none)
  eofs,      \* history: the number of next() calls that returned an
             \* end-of-input token, counted up to 2
  eofret     \* history: the first end-of-input token next() returned
             \* (-1: none)

lexVars ==
  <<input, pos, tokens, m_last, failed, lexret, nextret, eofs, eofret>>

vars ==
  <<dict, calls, found, ckind, cres, nodes, removed, vectors, dicts, astcall,
    live, ncalls, fresh, wrote, decl, pstate, nparsed, fun_idx, type_idx,
    var_idx, m_ids, issued, idcall, input, pos, tokens, m_last, failed,
    lexret, nextret, eofs, eofret>>

\* each component's calls leave the other components alone
DictOnly ==
  UNCHANGED <<kindVars, astVars, funVars, parseVars, idVars, lexVars>>
KindOnly ==
  UNCHANGED <<dictVars, astVars, funVars, parseVars, idVars, lexVars>>
AstOnly ==
  UNCHANGED <<dictVars, kindVars, funVars, parseVars, idVars, lexVars>>
IdOnly ==
  UNCHANGED <<dictVars, kindVars, astVars, funVars, parseVars, lexVars>>
LexOnly ==
  UNCHANGED <<dictVars, kindVars, astVars, funVars, parseVars, idVars>>
FunOnly == UNCHANGED <<dictVars, kindVars, parseVars, idVars, lexVars>>
ScopeOnly == UNCHANGED <<kindVars, funVars, parseVars, idVars, lexVars>>
ParseOnly == UNCHANGED <<dictVars, kindVars, funVars, idVars, lexVars>>

(***************************************************************************)
(* Handles.  AstNodeIndex and IdIndex are unsigned 32-bit integers whose   *)
(* largest value is the "undefined" handle.  The all-ones bit pattern is   *)
(* written -1 here (TLC's integers are 32-bit signed); no handle the model *)
(* issues ever reaches it.                                                 *)
(***************************************************************************)
UndefinedAstNodeIndex == -1

UndefinedIdIndex == -1

\* bounds of the OrderedDict model: the append calls made, the largest name
\* and the largest node handle passed
MaxAppends == 3
MaxIdIndex == 1
MaxNodeIndex == 2

\* bound of the arena model: the calls made on the arena and its nodes
MaxCalls == 5

\* bound of the arena model with destruction: the calls made before the
\* arena is destroyed
MaxLifeCalls == 4

\* bound of the function-type model: the calls made on the arena and on
\* the function-type nodes
MaxWrites == 6

\* bound of the Parser model: the parameters of the declaration parsed
MaxParams == 2

\* bounds of the IdCache model: the bytes of a text buffer and the texts
\* interned
MaxTextLen == 2
MaxIds == 2

\* bound of the Lexer model: the characters of the input stream
MaxInput == 4

IdIndexes == 0..MaxIdIndex
AstNodeIndexes == 0..MaxNodeIndex

(***************************************************************************)
(* OrderedDict (src/ast.hpp:14-49).  m_map is a function whose domain is   *)
(* the set of mapped names; m_nodes is the ordered node vector.            *)
(***************************************************************************)
EmptyDict == [m_map |-> [n \in {} |-> 0], m_nodes |-> <<>>]

\* a last-wins variant: a repeated name replaces the mapping
append_overwrite(d, name, node_index) ==
  [m_map   |-> [n \in (DOMAIN d.m_map) \cup {name} |->
                  IF n = name THEN node_index ELSE d.m_map[n]],
   m_nodes |-> Append(d.m_nodes, node_index)]

\* void append(IdIndex name, AstNodeIndex node_index)
append(d, name, node_index) ==
  IF name \notin DOMAIN d.m_map
    THEN [m_map   |-> [n \in (DOMAIN d.m_map) \cup {name} |->
                         IF n = name THEN node_index ELSE d.m_map[n]],
          m_nodes |-> Append(d.m_nodes, node_index)]
    ELSE d

\* a variant of append(node_index) that inserts at the front
append_node_front(d, node_index) ==
  [d EXCEPT !.m_nodes = <<node_index>> \o d.m_nodes]

\* void append(AstNodeIndex node_index)
append_node(d, node_index) ==
  [d EXCEPT !.m_nodes = Append(d.m_nodes, node_index)]

\* a variant of find that returns handle 0 for a name not mapped
find_or_zero(d, name) ==
  IF name \notin DOMAIN d.m_map THEN 0 ELSE d.m_map[name]

\* AstNodeIndex find(IdIndex name) const
find(d, name) ==
  IF name \notin DOMAIN d.m_map THEN UndefinedAstNodeIndex ELSE d.m_map[name]

\* const std::vector<AstNodeIndex>& get_nodes() const
get_nodes(d) == d.m_nodes

\* no find call made since the last append
NoFind == [name |-> UndefinedIdIndex, ret |-> UndefinedAstNodeIndex]

DictInit ==
  /\ dict = EmptyDict
  /\ calls = <<>>
  /\ found = NoFind

\* dict.append(name, node_index)
DictAppend ==
  \E name \in IdIndexes, node_index \in AstNodeIndexes :
    /\ Len(calls) < MaxAppends
    /\ dict' = append(dict, name, node_index)
    /\ calls' = Append(calls, [name |-> name, node |-> node_index])
    /\ found' = NoFind
    /\ DictOnly

\* dict.append(node_index)
DictAppendNode ==
  \E node_index \in AstNodeIndexes :
    /\ Len(calls) < MaxAppends
    /\ dict' = append_node(dict, node_index)
    /\ calls' = Append(calls, [name |-> UndefinedIdIndex, node |-> node_index])
    /\ found' = NoFind
    /\ DictOnly

\* dict.find(name)
DictFind ==
  \E name \in IdIndexes :
    /\ found' = [name |-> name, ret |-> find(dict, name)]
    /\ UNCHANGED <<dict, calls>>
    /\ DictOnly

DictNext == DictAppend \/ DictAppendNode \/ DictFind

(***************************************************************************)
(* AstNode::Kind and the classification predicates (src/ast.hpp:52-164).   *)
(***************************************************************************)
Kinds ==
  {"None", "Type", "Value",
   "I8Type", "I16Type", "I32Type", "U8Type", "U16Type", "U32Type", "F32Type",
   "F64Type",
   "StructType", "UnionType",
   "FunType", "FunTypeWithNamedParams", "LocalVariable", "GlobalVariable",
   "StringLiteral",
   "I8Literal", "I16Literal", "I32Literal", "U8Literal", "U16Literal",
   "U32Literal",
   "F32Literal", "F64Literal",
   "AssignExpr", "EqualExpr", "GreatExpr", "GreatOrEqualExpr", "LessExpr",
   "LessOrEqualExpr",
   "ParenthExpr", "NegExpr",
   "StructField", "UnionField",
   "Function", "Struct", "Union", "BlockScope",
   "VariableDeclStmt", "BlockStmt", "FunctionDeclStmt", "StructDeclStmt",
   "UnionDeclStmt", "IfElseStmt", "WhileStmt"}

\* static bool is_stmt(AstNode::Kind kind)
is_stmt(kind) ==
  kind \in {"VariableDeclStmt", "BlockStmt", "FunctionDeclStmt",
            "StructDeclStmt", "UnionDeclStmt", "IfElseStmt", "WhileStmt"}

\* static bool is_expr(AstNode::Kind kind)
is_expr(kind) ==
  kind \in {"AssignExpr", "EqualExpr", "GreatExpr", "GreatOrEqualExpr",
            "LessExpr", "LessOrEqualExpr"}

\* a variant that takes the block statement for the block scope
is_scope_block_stmt(kind) ==
  kind \in {"Function", "Struct", "Union", "BlockStmt"}

\* static bool is_scope(AstNode::Kind kind)
is_scope(kind) ==
  kind \in {"Function", "Struct", "Union"}

\* static bool is_type(AstNode::Kind kind)
is_type(kind) ==
  kind \in {"I8Type", "I16Type", "I32Type", "U8Type", "U16Type", "U32Type",
            "F32Type", "F64Type", "StructType", "UnionType", "FunType"}

\* static bool is_value(AstNode::Kind kind)
is_value(kind) ==
  kind \in {"LocalVariable", "GlobalVariable", "StringLiteral",
            "I8Literal", "I16Literal", "I32Literal", "U8Literal",
            "U16Literal", "U32Literal", "F32Literal", "F64Literal",
            "StructField", "UnionField"}

Predicates == {"is_stmt", "is_expr", "is_scope", "is_type", "is_value"}

\* cres maps each predicate already called on the node to what it returned
NoCalls == [p \in {} |-> FALSE]

Called(p, r) ==
  [q \in (DOMAIN cres) \cup {p} |-> IF q = p THEN r ELSE cres[q]]

KindInit ==
  /\ ckind \in Kinds
  /\ cres = NoCalls

\* bool is_stmt() const { return is_stmt(kind); }
CallIsStmt ==
  /\ cres' = Called("is_stmt", is_stmt(ckind))
  /\ UNCHANGED ckind
  /\ KindOnly

\* bool is_expr() const { return is_expr(kind); }
CallIsExpr ==
  /\ cres' = Called("is_expr", is_expr(ckind))
  /\ UNCHANGED ckind
  /\ KindOnly

\* bool is_scope() const { return is_scope(kind); }
CallIsScope ==
  /\ cres' = Called("is_scope", is_scope(ckind))
  /\ UNCHANGED ckind
  /\ KindOnly

\* bool is_type() const { return is_type(kind); }
CallIsType ==
  /\ cres' = Called("is_type", is_type(ckind))
  /\ UNCHANGED ckind
  /\ KindOnly

\* bool is_value() const { return is_value(kind); }
CallIsValue ==
  /\ cres' = Called("is_value", is_value(ckind))
  /\ UNCHANGED ckind
  /\ KindOnly

KindNext ==
  CallIsStmt \/ CallIsExpr \/ CallIsScope \/ CallIsType \/ CallIsValue

(***************************************************************************)
(* AstNode payload and clean() (src/ast.hpp:166-342).  The payload is the  *)
(* union Node; the model keeps the fields that a claim reads: the scalars  *)
(* value.type, name (the IdIndex name member of the node's kind) and       *)
(* fun_type.return_type, and the four owning pointers.  A node touches     *)
(* only the fields of its own kind, so the overlap of the union members is *)
(* not observable.                                                         *)
(***************************************************************************)
\* AstNode(Kind kind): memset to zero, then the kind
AstNode(kind) ==
  [kind |-> kind, type |-> 0, name |-> 0, return_type |-> 0,
   param_types |-> 0, names |-> 0, dict |-> 0, stmts |-> 0]

FunTypeKinds == {"FunType", "FunTypeWithNamedParams"}

\* the kinds whose payload embeds a Scope: scope, block_scope, function,
\* struc, unio
ScopeKinds == {"Function", "Struct", "Union", "BlockScope"}

\* a variant of clean() that resets the kind and leaves the payload
clean_no_memset(n) ==
  [node    |-> [n EXCEPT !.kind = "None"],
   vectors |-> CASE n.kind = "FunTypeWithNamedParams" ->
                      {n.names, n.param_types} \ {0}
                 [] n.kind = "FunType" -> {n.param_types} \ {0}
                 [] n.kind = "BlockStmt" -> {n.stmts} \ {0}
                 [] OTHER -> {},
   dicts   |-> IF n.kind \in {"Function", "Struct", "Union"}
                 THEN {n.dict} \ {0} ELSE {}]

\* a variant of clean() that zeroes the payload and leaves the kind
clean_keep_kind(n) ==
  [node    |-> AstNode(n.kind),
   vectors |-> CASE n.kind = "FunTypeWithNamedParams" ->
                      {n.names, n.param_types} \ {0}
                 [] n.kind = "FunType" -> {n.param_types} \ {0}
                 [] n.kind = "BlockStmt" -> {n.stmts} \ {0}
                 [] OTHER -> {},
   dicts   |-> IF n.kind \in {"Function", "Struct", "Union"}
                 THEN {n.dict} \ {0} ELSE {}]

\* void clean(): the node after it, and the pointers it deletes (delete of
\* a null pointer does nothing)
clean(n) ==
  [node    |-> AstNode("None"),
   vectors |-> CASE n.kind = "FunTypeWithNamedParams" ->
                      {n.names, n.param_types} \ {0}
                 [] n.kind = "FunType" -> {n.param_types} \ {0}
                 [] n.kind = "BlockStmt" -> {n.stmts} \ {0}
                 [] OTHER -> {},
   dicts   |-> IF n.kind \in {"Function", "Struct", "Union"}
                 THEN {n.dict} \ {0} ELSE {}]

(***************************************************************************)
(* The heap.  vectors and dicts are the storage operator new hands out: a  *)
(* pointer is a position in them and 0 is nullptr.  A cell is "free",      *)
(* "live" (allocated; owner is the handle of the node that allocated it,   *)
(* kept as history) or "double" once delete reached a cell that was not    *)
(* allocated.  new takes the lowest free cell, or a further cell when none *)
(* is free; delete destroys the contents and frees the cell.               *)
(***************************************************************************)
FreeVector == [state |-> "free", owner |-> 0, elems |-> <<>>]

FreeOrderedDict == [state |-> "free", owner |-> 0, d |-> EmptyDict]

\* the cells new can hand out
FreeCells(heap) == {p \in DOMAIN heap : heap[p].state = "free"}

\* the cell new hands out
Alloc(heap) ==
  IF FreeCells(heap) = {}
    THEN Len(heap) + 1
    ELSE CHOOSE p \in FreeCells(heap) : \A q \in FreeCells(heap) : p <= q

\* the heap with obj stored in cell p
Store(heap, p, obj) ==
  [q \in (DOMAIN heap) \cup {p} |-> IF q = p THEN obj ELSE heap[q]]

\* delete of every std::vector in ptrs
DeleteVectors(heap, ptrs) ==
  [p \in DOMAIN heap |->
     IF p \in ptrs
       THEN [FreeVector EXCEPT
               !.state = IF heap[p].state = "live" THEN "free" ELSE "double"]
       ELSE heap[p]]

\* delete of every OrderedDict in ptrs
DeleteDicts(heap, ptrs) ==
  [p \in DOMAIN heap |->
     IF p \in ptrs
       THEN [FreeOrderedDict EXCEPT
               !.state = IF heap[p].state = "live" THEN "free" ELSE "double"]
       ELSE heap[p]]

(***************************************************************************)
(* Ast (src/ast.hpp:344-368)                                               *)
(***************************************************************************)
\* new std::vector<...>, allocated by node index
NewVector(index) == [state |-> "live", owner |-> index, elems |-> <<>>]

\* new OrderedDict, allocated by node index
NewDict(index) == [state |-> "live", owner |-> index, d |-> EmptyDict]

\* the kinds the model creates nodes of: a kind without owned structure
\* and every kind that can own one
CreateKinds ==
  {"I32Type", "FunType", "FunTypeWithNamedParams", "Function", "Struct",
   "Union", "BlockScope", "BlockStmt"}

Range(q) == {q[i] : i \in DOMAIN q}

Handles == 0..(Len(nodes) - 1)

\* the handles and the name the model stores in owned lists: what a list
\* holds plays no part in creating and removing nodes
ListHandles == Handles \cap {0}
ListIds == {0}

\* AstNode& get_node(AstNodeIndex index)
get_node(index) == nodes[index + 1]

NoCall == [op |-> "none", index |-> 0, kind |-> "None", reused |-> FALSE]

Call(op, index, kind, reused) ==
  [op |-> op, index |-> index, kind |-> kind, reused |-> reused]

AstInit ==
  /\ nodes = <<>>
  /\ removed = <<>>
  /\ vectors = <<>>
  /\ dicts = <<>>
  /\ astcall = NoCall
  /\ live = {}
  /\ ncalls = 0
  /\ fresh = 0

\* a variant of create that leaves the reused handle on the free list
create_no_pop(kind) ==
  IF removed = <<>>
    THEN /\ nodes' = Append(nodes, AstNode(kind))
         /\ removed' = removed
         /\ astcall' = Call("create", Len(nodes), kind, FALSE)
    ELSE LET index == removed[Len(removed)] IN
         /\ nodes' = [nodes EXCEPT ![index + 1].kind = kind]
         /\ removed' = removed
         /\ astcall' = Call("create", index, kind, TRUE)

\* a variant of create that reuses the handle removed first
create_fifo(kind) ==
  IF removed = <<>>
    THEN /\ nodes' = Append(nodes, AstNode(kind))
         /\ removed' = removed
         /\ astcall' = Call("create", Len(nodes), kind, FALSE)
    ELSE LET index == removed[1] IN
         /\ nodes' = [nodes EXCEPT ![index + 1].kind = kind]
         /\ removed' = SubSeq(removed, 2, Len(removed))
         /\ astcall' = Call("create", index, kind, TRUE)

\* AstNodeIndex create(AstNode::Kind kind); astcall'.index is the handle
\* returned
create(kind) ==
  IF removed = <<>>
    THEN /\ nodes' = Append(nodes, AstNode(kind))
         /\ removed' = removed
         /\ astcall' = Call("create", Len(nodes), kind, FALSE)
    ELSE LET index == removed[Len(removed)] IN
         /\ nodes' = [nodes EXCEPT ![index + 1].kind = kind]
         /\ removed' = SubSeq(removed, 1, Len(removed) - 1)
         /\ astcall' = Call("create", index, kind, TRUE)

\* void remove(AstNodeIndex index)
remove(index) ==
  LET c == clean(get_node(index)) IN
  /\ nodes' = [nodes EXCEPT ![index + 1] = c.node]
  /\ vectors' = DeleteVectors(vectors, c.vectors)
  /\ dicts' = DeleteDicts(dicts, c.dicts)
  /\ removed' = Append(removed, index)
  /\ astcall' = Call("remove", index, "None", FALSE)

\* every call is made on an arena not yet destroyed and is counted, up to
\* MaxCalls calls
Counted ==
  /\ ncalls < MaxCalls
  /\ astcall.op # "destroy"
  /\ ncalls' = ncalls + 1

\* ast.create(kind)
Create ==
  /\ Counted
  /\ \E kind \in CreateKinds :
      /\ create(kind)
      /\ live' = live \cup {astcall'.index}
      /\ fresh' = IF removed = <<>> THEN fresh + 1 ELSE fresh
      /\ UNCHANGED <<vectors, dicts>>
      /\ AstOnly

\* ast.remove(index), called on a handle that create returned and that was
\* not removed since (a handle is valid until its node is removed)
Remove ==
  /\ Counted
  /\ \E index \in live :
      /\ remove(index)
      /\ live' = live \ {index}
      /\ UNCHANGED fresh
      /\ AstOnly

\* ast.get_node(index).node.fun_type.return_type = type
SetReturnType ==
  /\ Counted
  /\ \E index \in live, type \in Handles :
      /\ get_node(index).kind \in FunTypeKinds
      /\ nodes' = [nodes EXCEPT ![index + 1].return_type = type]
      /\ astcall' = NoCall
      /\ AstOnly
      /\ UNCHANGED <<removed, vectors, dicts, live, fresh>>

\* a variant of add_param_type that allocates a list on every call
add_param_type_realloc(index, type) ==
  LET p == Alloc(vectors) IN
  /\ nodes' = [nodes EXCEPT ![index + 1].param_types = p]
  /\ vectors' = Store(vectors, p, [NewVector(index) EXCEPT !.elems = <<type>>])

\* void FunType::add_param_type(AstNodeIndex type)
add_param_type(index, type) ==
  LET n == get_node(index)
      p == IF n.param_types = 0 THEN Alloc(vectors) ELSE n.param_types
      heap == IF n.param_types = 0
                THEN Store(vectors, p, NewVector(index)) ELSE vectors
  IN
  /\ nodes' = [nodes EXCEPT ![index + 1].param_types = p]
  /\ vectors' = [heap EXCEPT ![p].elems = Append(@, type)]

\* ast.get_node(index).node.fun_type.add_param_type(type)
AddParamType ==
  /\ Counted
  /\ \E index \in live, type \in ListHandles :
      /\ get_node(index).kind \in FunTypeKinds
      /\ add_param_type(index, type)
      /\ astcall' = NoCall
      /\ AstOnly
      /\ UNCHANGED <<removed, dicts, live, fresh>>

\* void FunTypeWithNamedParams::add_name(IdIndex id)
add_name(index, id) ==
  LET n == get_node(index)
      p == IF n.names = 0 THEN Alloc(vectors) ELSE n.names
      heap == IF n.names = 0
                THEN Store(vectors, p, NewVector(index)) ELSE vectors
  IN
  /\ nodes' = [nodes EXCEPT ![index + 1].names = p]
  /\ vectors' = [heap EXCEPT ![p].elems = Append(@, id)]

\* ast.get_node(index).node.fun_type_with_named_params.add_name(id)
AddName ==
  /\ Counted
  /\ \E index \in live, id \in ListIds :
      /\ get_node(index).kind = "FunTypeWithNamedParams"
      /\ add_name(index, id)
      /\ astcall' = NoCall
      /\ AstOnly
      /\ UNCHANGED <<removed, dicts, live, fresh>>

\* void block_stmt.add_stmt(AstNodeIndex node_idx)
add_stmt(index, node_idx) ==
  LET n == get_node(index)
      p == IF n.stmts = 0 THEN Alloc(vectors) ELSE n.stmts
      heap == IF n.stmts = 0
                THEN Store(vectors, p, NewVector(index)) ELSE vectors
  IN
  /\ nodes' = [nodes EXCEPT ![index + 1].stmts = p]
  /\ vectors' = [heap EXCEPT ![p].elems = Append(@, node_idx)]

\* ast.get_node(index).node.block_stmt.add_stmt(node_idx)
AddStmt ==
  /\ Counted
  /\ \E index \in live, node_idx \in ListHandles :
      /\ get_node(index).kind = "BlockStmt"
      /\ add_stmt(index, node_idx)
      /\ astcall' = NoCall
      /\ AstOnly
      /\ UNCHANGED <<removed, dicts, live, fresh>>

\* a variant of add_node that passes every name, the undefined one too, to
\* append(name, node_index)
add_node_always_named(index, node_idx, name) ==
  LET n == get_node(index)
      p == IF n.dict = 0 THEN Alloc(dicts) ELSE n.dict
      heap == IF n.dict = 0
                THEN Store(dicts, p, NewDict(index)) ELSE dicts
  IN
  /\ nodes' = [nodes EXCEPT ![index + 1].dict = p]
  /\ dicts' = [heap EXCEPT ![p].d = append(@, name, node_idx)]

\* a variant of add_node that takes every name for the undefined name
add_node_unnamed(index, node_idx, name) ==
  LET n == get_node(index)
      p == IF n.dict = 0 THEN Alloc(dicts) ELSE n.dict
      heap == IF n.dict = 0
                THEN Store(dicts, p, NewDict(index)) ELSE dicts
  IN
  /\ nodes' = [nodes EXCEPT ![index + 1].dict = p]
  /\ dicts' = [heap EXCEPT ![p].d = append_node(@, node_idx)]

\* void Scope::add_node(AstNodeIndex node_idx, IdIndex name = UndefinedIdIndex)
add_node(index, node_idx, name) ==
  LET n == get_node(index)
      p == IF n.dict = 0 THEN Alloc(dicts) ELSE n.dict
      heap == IF n.dict = 0
                THEN Store(dicts, p, NewDict(index)) ELSE dicts
  IN
  /\ nodes' = [nodes EXCEPT ![index + 1].dict = p]
  /\ dicts' = [heap EXCEPT ![p].d =
                 IF name # UndefinedIdIndex
                   THEN append(@, name, node_idx)
                   ELSE append_node(@, node_idx)]

\* ast.get_node(index).node.scope.add_node(node_idx, name)
AddNode ==
  /\ Counted
  /\ \E index \in live, node_idx \in ListHandles,
       name \in ListIds \cup {UndefinedIdIndex} :
      /\ get_node(index).kind \in ScopeKinds
      /\ add_node(index, node_idx, name)
      /\ astcall' = NoCall
      /\ AstOnly
      /\ UNCHANGED <<removed, vectors, live, fresh>>

AstNext ==
  Create \/ Remove \/ SetReturnType \/ AddParamType \/ AddName \/ AddStmt
    \/ AddNode

\* ~AstNode() of the nodes from position i on, in order: the nodes and the
\* heap after it
RECURSIVE DestroyNodes(_, _, _, _)
DestroyNodes(i, ns, vs, ds) ==
  IF i > Len(ns)
    THEN [nodes |-> ns, vectors |-> vs, dicts |-> ds]
    ELSE LET c == clean(ns[i]) IN
         DestroyNodes(i + 1, [ns EXCEPT ![i] = c.node],
                      DeleteVectors(vs, c.vectors), DeleteDicts(ds, c.dicts))

\* ~Ast(): the deque destroys every AstNode it holds, removed ones too
Destroy ==
  /\ astcall.op # "destroy"
  /\ LET r == DestroyNodes(1, nodes, vectors, dicts) IN
      /\ nodes' = r.nodes
      /\ vectors' = r.vectors
      /\ dicts' = r.dicts
  /\ astcall' = Call("destroy", 0, "None", FALSE)
  /\ live' = {}
  /\ UNCHANGED <<removed, ncalls, fresh>>
  /\ AstOnly

\* the life of an arena: up to MaxLifeCalls calls on it and on its nodes,
\* and its destruction at any time
LifeCounted == ncalls < MaxLifeCalls

LifeCreate == LifeCounted /\ Create

LifeRemove == LifeCounted /\ Remove

LifeSetReturnType == LifeCounted /\ SetReturnType

LifeAddParamType == LifeCounted /\ AddParamType

LifeAddName == LifeCounted /\ AddName

LifeAddStmt == LifeCounted /\ AddStmt

LifeAddNode == LifeCounted /\ AddNode

AstLifeNext ==
  LifeCreate \/ LifeRemove \/ LifeSetReturnType \/ LifeAddParamType
    \/ LifeAddName \/ LifeAddStmt \/ LifeAddNode \/ Destroy

(***************************************************************************)
(* A function-type node written and read back, as TEST(Ast, FunType) does  *)
(* it (src/unnamed/part_000:62-85): type nodes and function-type nodes are *)
(* created, and a function-type node gets its name, its return type and    *)
(* its parameter types, through add_param_type or through a list the       *)
(* caller allocates.  No node is removed.                                  *)
(***************************************************************************)
\* the kinds created: a primitive type and a function type
FunCreateKinds == {"I32Type", "FunType"}

\* the names given to a function type
FunNames == {0, 1}

\* nothing written to a node yet
NoWrite ==
  [name |-> UndefinedIdIndex, return_type |-> UndefinedAstNodeIndex,
   params |-> <<>>]

FunInit ==
  /\ AstInit
  /\ wrote = <<>>

\* every call is counted, up to MaxWrites calls
FunCounted ==
  /\ ncalls < MaxWrites
  /\ ncalls' = ncalls + 1

\* auto idx = ast.create(kind)
FunCreate ==
  /\ FunCounted
  /\ \E kind \in FunCreateKinds :
      /\ create(kind)
      /\ live' = live \cup {astcall'.index}
      /\ fresh' = IF removed = <<>> THEN fresh + 1 ELSE fresh
      /\ wrote' = Append(wrote, NoWrite)
      /\ UNCHANGED <<vectors, dicts>>
      /\ FunOnly

\* node.node.fun_type.name = id
FunSetName ==
  /\ FunCounted
  /\ \E index \in live, id \in FunNames :
      /\ get_node(index).kind \in FunTypeKinds
      /\ nodes' = [nodes EXCEPT ![index + 1].name = id]
      /\ wrote' = [wrote EXCEPT ![index + 1].name = id]
      /\ astcall' = NoCall
      /\ UNCHANGED <<removed, vectors, dicts, live, fresh>>
      /\ FunOnly

\* node.node.fun_type.return_type = type
FunSetReturnType ==
  /\ FunCounted
  /\ \E index \in live, type \in live :
      /\ get_node(index).kind \in FunTypeKinds
      /\ nodes' = [nodes EXCEPT ![index + 1].return_type = type]
      /\ wrote' = [wrote EXCEPT ![index + 1].return_type = type]
      /\ astcall' = NoCall
      /\ UNCHANGED <<removed, vectors, dicts, live, fresh>>
      /\ FunOnly

\* node.node.fun_type.add_param_type(type)
FunAddParamType ==
  /\ FunCounted
  /\ \E index \in live, type \in live :
      /\ get_node(index).kind \in FunTypeKinds
      /\ add_param_type(index, type)
      /\ wrote' = [wrote EXCEPT ![index + 1].params =
                     Append(@, [type |-> type, kind |-> get_node(type).kind])]
      /\ astcall' = NoCall
      /\ UNCHANGED <<removed, dicts, live, fresh>>
      /\ FunOnly

\* node.node.fun_type.param_types = new std::vector<AstNodeIndex>(); a list
\* the node had before stays allocated
FunNewParamTypes ==
  /\ FunCounted
  /\ \E index \in live :
      LET p == Alloc(vectors) IN
      /\ get_node(index).kind \in FunTypeKinds
      /\ nodes' = [nodes EXCEPT ![index + 1].param_types = p]
      /\ vectors' = Store(vectors, p, NewVector(index))
      /\ wrote' = [wrote EXCEPT ![index + 1].params = <<>>]
      /\ astcall' = NoCall
      /\ UNCHANGED <<removed, dicts, live, fresh>>
      /\ FunOnly

\* node.node.fun_type.param_types->emplace_back(type), on a list allocated
FunEmplaceBack ==
  /\ FunCounted
  /\ \E index \in live, type \in live :
      LET p == get_node(index).param_types IN
      /\ get_node(index).kind \in FunTypeKinds
      /\ p # 0
      /\ vectors' = [vectors EXCEPT ![p].elems = Append(@, type)]
      /\ wrote' = [wrote EXCEPT ![index + 1].params =
                     Append(@, [type |-> type, kind |-> get_node(type).kind])]
      /\ astcall' = NoCall
      /\ UNCHANGED <<nodes, removed, dicts, live, fresh>>
      /\ FunOnly

FunNext ==
  FunCreate \/ FunSetName \/ FunSetReturnType \/ FunAddParamType
    \/ FunNewParamTypes \/ FunEmplaceBack

(***************************************************************************)
(* A scope node and its dictionary (src/ast.hpp:280-312): one node of a    *)
(* kind that embeds a Scope is created, and members are added to it with   *)
(* add_node, named or unnamed, or appended to its dictionary directly.     *)
(* calls is the history of these insertions.                               *)
(***************************************************************************)
ScopeInit ==
  /\ AstInit
  /\ dict = EmptyDict
  /\ calls = <<>>
  /\ found = NoFind

\* the dictionary of the scope node; a scope without a dictionary has no
\* member
ScopeDict ==
  IF nodes = <<>> \/ get_node(0).dict = 0
    THEN EmptyDict ELSE dicts[get_node(0).dict].d

\* auto idx = ast.create(kind), for the one scope node
ScopeCreate ==
  /\ nodes = <<>>
  /\ \E kind \in ScopeKinds :
      /\ create(kind)
      /\ live' = live \cup {astcall'.index}
      /\ fresh' = IF removed = <<>> THEN fresh + 1 ELSE fresh
      /\ ncalls' = ncalls + 1
      /\ UNCHANGED <<vectors, dicts, dictVars>>
      /\ ScopeOnly

\* node.node.scope.add_node(node_idx, name) and
\* node.node.scope.add_node(node_idx)
ScopeAddNode ==
  \E index \in live, node_idx \in AstNodeIndexes,
     name \in IdIndexes \cup {UndefinedIdIndex} :
    /\ Len(calls) < MaxAppends
    /\ add_node(index, node_idx, name)
    /\ calls' = Append(calls, [name |-> name, node |-> node_idx])
    /\ astcall' = NoCall
    /\ ncalls' = ncalls + 1
    /\ UNCHANGED <<removed, vectors, live, fresh, dict, found>>
    /\ ScopeOnly

\* node.node.scope.dict->append(node_idx), on a dictionary allocated
ScopeAppendNode ==
  \E index \in live, node_idx \in AstNodeIndexes :
    LET p == get_node(index).dict IN
    /\ Len(calls) < MaxAppends
    /\ p # 0
    /\ dicts' = [dicts EXCEPT ![p].d = append_node(@, node_idx)]
    /\ calls' = Append(calls, [name |-> UndefinedIdIndex, node |-> node_idx])
    /\ astcall' = NoCall
    /\ ncalls' = ncalls + 1
    /\ UNCHANGED <<nodes, removed, vectors, live, fresh, dict, found>>
    /\ ScopeOnly

ScopeNext == ScopeCreate \/ ScopeAddNode \/ ScopeAppendNode

(***************************************************************************)
(* Parser.  parser.hpp is not among the sources; the function-declaration  *)
(* production is modelled from its contract (parse() builds a Function     *)
(* scope node and registers each parameter by name into the function's     *)
(* dictionary as a LocalVariable node whose value type is the parsed       *)
(* parameter type; an unexpected token is a syntax error that aborts       *)
(* parse()) and from TEST(Parser, Simple).  The nodes are built with       *)
(* Ast::create and Scope::add_node of src/ast.hpp.                         *)
(***************************************************************************)
\* the types of the parameters of TEST(Parser, Simple)
ParamTypeKinds == {"I8Type", "I32Type"}

\* a parameter: its type and its name, or no name where the identifier is
\* missing from the source text
Params == [type : ParamTypeKinds, name : IdIndexes \cup {UndefinedIdIndex}]

\* the declarations parsed: up to MaxParams parameters
Decls == UNION {[1..n -> Params] : n \in 0..MaxParams}

ParseInit ==
  /\ AstInit
  /\ decl \in Decls
  /\ pstate = "start"
  /\ nparsed = 0
  /\ fun_idx = UndefinedAstNodeIndex
  /\ type_idx = UndefinedAstNodeIndex
  /\ var_idx = UndefinedAstNodeIndex

\* the arena call a parser step makes is counted
ParseCounted == ncalls' = ncalls + 1

\* `fun` name `(`: the Function node
ParseFunction ==
  /\ pstate = "start"
  /\ create("Function")
  /\ fun_idx' = astcall'.index
  /\ pstate' = "type"
  /\ live' = live \cup {astcall'.index}
  /\ fresh' = IF removed = <<>> THEN fresh + 1 ELSE fresh
  /\ ParseCounted
  /\ UNCHANGED <<vectors, dicts, decl, nparsed, type_idx, var_idx>>
  /\ ParseOnly

\* a parameter's type position: the type node
ParseParamType ==
  /\ pstate = "type"
  /\ nparsed < Len(decl)
  /\ create(decl[nparsed + 1].type)
  /\ type_idx' = astcall'.index
  /\ pstate' = "name"
  /\ live' = live \cup {astcall'.index}
  /\ fresh' = IF removed = <<>> THEN fresh + 1 ELSE fresh
  /\ ParseCounted
  /\ UNCHANGED <<vectors, dicts, decl, nparsed, fun_idx, var_idx>>
  /\ ParseOnly

\* a parameter's name: the LocalVariable node
ParseParamName ==
  /\ pstate = "name"
  /\ decl[nparsed + 1].name # UndefinedIdIndex
  /\ create("LocalVariable")
  /\ var_idx' = astcall'.index
  /\ pstate' = "init"
  /\ live' = live \cup {astcall'.index}
  /\ fresh' = IF removed = <<>> THEN fresh + 1 ELSE fresh
  /\ ParseCounted
  /\ UNCHANGED <<vectors, dicts, decl, nparsed, fun_idx, type_idx>>
  /\ ParseOnly

\* no identifier where the parameter's name is expected: a syntax error
ParseSyntaxError ==
  /\ pstate = "name"
  /\ decl[nparsed + 1].name = UndefinedIdIndex
  /\ pstate' = "error"
  /\ UNCHANGED <<astVars, decl, nparsed, fun_idx, type_idx, var_idx>>
  /\ ParseOnly

\* node.local_variable.value.type = type; node.local_variable.name = name
ParseParamInit ==
  /\ pstate = "init"
  /\ nodes' = [nodes EXCEPT ![var_idx + 1].type = type_idx,
                            ![var_idx + 1].name = decl[nparsed + 1].name]
  /\ pstate' = "register"
  /\ astcall' = NoCall
  /\ ParseCounted
  /\ UNCHANGED <<removed, vectors, dicts, live, fresh>>
  /\ UNCHANGED <<decl, nparsed, fun_idx, type_idx, var_idx>>
  /\ ParseOnly

\* function.scope.add_node(variable, name)
ParseParamRegister ==
  /\ pstate = "register"
  /\ add_node(fun_idx, var_idx, decl[nparsed + 1].name)
  /\ nparsed' = nparsed + 1
  /\ pstate' = "type"
  /\ astcall' = NoCall
  /\ ParseCounted
  /\ UNCHANGED <<removed, vectors, live, fresh>>
  /\ UNCHANGED <<decl, fun_idx, type_idx, var_idx>>
  /\ ParseOnly

\* `)` `->` return-type `{` statement* `}`: the rest of the declaration,
\* which registers nothing into the function's dictionary
ParseBody ==
  /\ pstate = "type"
  /\ nparsed = Len(decl)
  /\ pstate' = "done"
  /\ UNCHANGED <<astVars, decl, nparsed, fun_idx, type_idx, var_idx>>
  /\ ParseOnly

ParseNext ==
  ParseFunction \/ ParseParamType \/ ParseParamName \/ ParseSyntaxError
    \/ ParseParamInit \/ ParseParamRegister \/ ParseBody

(***************************************************************************)
(* IdCache.  id_cache.hpp is not among the sources; the interner is        *)
(* modelled from its contract (get(text, length) returns the handle of the *)
(* text if it was seen, else stores a copy under a new handle; get(handle) *)
(* returns the stored text and length) and from TEST(IdCache, Simple).     *)
(* A text is the sequence of the first length bytes of the buffer passed.  *)
(***************************************************************************)
Chars == {"a", "b"}

\* the buffers passed to get: 1..MaxTextLen bytes
Buffers == UNION {[1..n -> Chars] : n \in 1..MaxTextLen}

\* the bytes get(text, length) reads
Span(text, length) == SubSeq(text, 1, length)

\* the entry stored for a text: a copy of its bytes and its length
IdEntry(text, length) == [str |-> Span(text, length), length |-> length]

\* a variant of the lookup that compares the length only
Lookup_by_length(text, length) ==
  {i \in 1..Len(m_ids) : m_ids[i].length = length}

\* the positions of m_ids holding the text
Lookup(text, length) ==
  {i \in 1..Len(m_ids) : m_ids[i] = IdEntry(text, length)}

\* the handle get(text, length) returns
IdIndexOf(text, length) ==
  IF Lookup(text, length) = {}
    THEN Len(m_ids)
    ELSE (CHOOSE i \in Lookup(text, length) : TRUE) - 1

IdInit ==
  /\ m_ids = <<>>
  /\ issued = {}
  /\ idcall = [op |-> "none", index |-> UndefinedIdIndex, str |-> <<>>,
               length |-> 0]

\* IdIndex IdCache::get(text, length)
IdGet ==
  \E text \in Buffers : \E length \in 1..Len(text) :
    LET index == IdIndexOf(text, length) IN
    /\ index = Len(m_ids) => Len(m_ids) < MaxIds
    /\ m_ids' = IF index = Len(m_ids)
                  THEN Append(m_ids, IdEntry(text, length)) ELSE m_ids
    /\ issued' = issued \cup {[text |-> Span(text, length), index |-> index]}
    /\ idcall' = [op |-> "get", index |-> index, str |-> Span(text, length),
                  length |-> length]
    /\ IdOnly

\* IdCache::get(index), for a handle the interner issued
IdGetId ==
  \E index \in {x.index : x \in issued} :
    /\ idcall' = [op |-> "get_id", index |-> index,
                  str |-> m_ids[index + 1].str,
                  length |-> m_ids[index + 1].length]
    /\ UNCHANGED <<m_ids, issued>>
    /\ IdOnly

IdNext == IdGet \/ IdGetId

(***************************************************************************)
(* Lexer.  lexer.hpp and token.hpp are not among the sources; the lexer is *)
(* modelled from its contract (next() skips whitespace and returns the     *)
(* next keyword, identifier or string literal token, and the one           *)
(* end-of-input token once the input is exhausted; last() returns the      *)
(* token last produced without advancing; an unterminated string literal   *)
(* is a lexical error) and from TEST(Lexer, Simple).                       *)
(***************************************************************************)
Quote == "\""

LexChars == {" ", "f", "u", "n", Quote}

Letters == LexChars \ {" ", Quote}

\* the streams lexed: up to MaxInput characters
Inputs == UNION {[1..n -> LexChars] : n \in 0..MaxInput}

\* the keywords TEST(Lexer, Simple) lexes
Keywords ==
  (<<"f", "u", "n">> :> "Fun")
    @@ (<<"s", "t", "r", "u", "c", "t">> :> "Struct")
    @@ (<<"u", "n", "i", "o", "n">> :> "Union")

\* the identity of the end-of-input token
EofToken == 0

NoToken == -1

\* the token an identity denotes
TokenAt(id) ==
  IF id = EofToken THEN [kind |-> "Eof", value |-> <<>>] ELSE tokens[id]

\* the first position from p on whose character is not in set, or the
\* position after the input
FirstNotIn(set, p) ==
  LET stop == {q \in p..Len(input) : input[q] \notin set} \cup {Len(input) + 1}
  IN  CHOOSE q \in stop : \A r \in stop : q <= r

\* the token that starts after the pos characters consumed: its kind, its
\* payload, the position of its last character; ok is false for a
\* lexical error
Scan ==
  LET s == FirstNotIn({" "}, pos + 1) IN
  IF s > Len(input)
    THEN [ok |-> TRUE, kind |-> "Eof", value |-> <<>>, end |-> Len(input)]
    ELSE IF input[s] = Quote
      THEN LET e == FirstNotIn(LexChars \ {Quote}, s + 1) IN
           IF e > Len(input)
             THEN [ok |-> FALSE, kind |-> "Eof", value |-> <<>>, end |-> pos]
             ELSE [ok |-> TRUE, kind |-> "StringLiteral",
                   value |-> SubSeq(input, s + 1, e - 1), end |-> e]
      ELSE LET e == FirstNotIn(Letters, s) - 1
               word == SubSeq(input, s, e)
           IN  IF word \in DOMAIN Keywords
                 THEN [ok |-> TRUE, kind |-> Keywords[word], value |-> <<>>,
                       end |-> e]
                 ELSE [ok |-> TRUE, kind |-> "Identifier", value |-> word,
                       end |-> e]

LexInit ==
  /\ input \in Inputs
  /\ pos = 0
  /\ tokens = <<>>
  /\ m_last = NoToken
  /\ failed = FALSE
  /\ lexret = [op |-> "none", token |-> NoToken]
  /\ nextret = NoToken
  /\ eofs = 0
  /\ eofret = NoToken

\* a variant of next() that builds a new end-of-input token on every call
next_new_eof ==
  LET t == Scan IN
  IF ~t.ok
    THEN failed' = TRUE /\ UNCHANGED <<input, pos, tokens, m_last>>
    ELSE /\ tokens' = Append(tokens, [kind |-> t.kind, value |-> t.value])
         /\ m_last' = Len(tokens) + 1
         /\ pos' = t.end
         /\ UNCHANGED <<input, failed>>

\* const Token& Lexer::next(); the token returned is m_last'
next ==
  LET t == Scan IN
  IF ~t.ok
    THEN failed' = TRUE /\ UNCHANGED <<input, pos, tokens, m_last>>
    ELSE IF t.kind = "Eof"
      THEN /\ m_last' = EofToken
           /\ pos' = t.end
           /\ UNCHANGED <<input, tokens, failed>>
      ELSE /\ tokens' = Append(tokens, [kind |-> t.kind, value |-> t.value])
           /\ m_last' = Len(tokens) + 1
           /\ pos' = t.end
           /\ UNCHANGED <<input, failed>>

\* a variant of last() that lexes on
last_advances == next

\* const Token& Lexer::last(); the token returned is m_last
last == UNCHANGED <<input, pos, tokens, m_last, failed>>

\* lexer.next()
LexNext ==
  /\ ~failed
  /\ next
  /\ IF failed'
       THEN /\ lexret' = [op |-> "error", token |-> NoToken]
            /\ UNCHANGED <<nextret, eofs, eofret>>
       ELSE /\ lexret' = [op |-> "next", token |-> m_last']
            /\ nextret' = m_last'
            /\ eofs' = IF TokenAt(m_last)'.kind = "Eof"
                         THEN (IF eofs < 2 THEN eofs + 1 ELSE 2) ELSE eofs
            /\ eofret' = IF TokenAt(m_last)'.kind = "Eof" /\ eofs = 0
                           THEN m_last' ELSE eofret
  /\ LexOnly

\* lexer.last(), after a next() call
LexLast ==
  /\ ~failed
  /\ nextret # NoToken
  /\ last
  /\ ~failed'
  /\ lexret' = [op |-> "last", token |-> m_last']
  /\ UNCHANGED <<nextret, eofs, eofret>>
  /\ LexOnly

LexNextStep == LexNext \/ LexLast

(***************************************************************************)
(* Specifications                                                          *)
(***************************************************************************)
DictIdle == dict = EmptyDict /\ calls = <<>> /\ found = NoFind

KindIdle == ckind = "None" /\ cres = NoCalls

AstIdle == AstInit

FunIdle == wrote = <<>>

ParseIdle ==
  /\ decl = <<>>
  /\ pstate = "start"
  /\ nparsed = 0
  /\ fun_idx = UndefinedAstNodeIndex
  /\ type_idx = UndefinedAstNodeIndex
  /\ var_idx = UndefinedAstNodeIndex

IdIdle == IdInit

LexIdle ==
  /\ input = <<>>
  /\ pos = 0
  /\ tokens = <<>>
  /\ m_last = NoToken
  /\ failed = FALSE
  /\ lexret = [op |-> "none", token |-> NoToken]
  /\ nextret = NoToken
  /\ eofs = 0
  /\ eofret = NoToken

InitDict ==
  DictInit /\ KindIdle /\ AstIdle /\ FunIdle /\ ParseIdle /\ IdIdle /\ LexIdle

InitKind ==
  KindInit /\ DictIdle /\ AstIdle /\ FunIdle /\ ParseIdle /\ IdIdle /\ LexIdle

InitAst ==
  AstInit /\ DictIdle /\ KindIdle /\ FunIdle /\ ParseIdle /\ IdIdle /\ LexIdle

InitFunType ==
  FunInit /\ DictIdle /\ KindIdle /\ ParseIdle /\ IdIdle /\ LexIdle

InitScope ==
  ScopeInit /\ KindIdle /\ FunIdle /\ ParseIdle /\ IdIdle /\ LexIdle

InitParser ==
  ParseInit /\ DictIdle /\ KindIdle /\ FunIdle /\ IdIdle /\ LexIdle

InitIdCache ==
  IdInit /\ DictIdle /\ KindIdle /\ AstIdle /\ FunIdle /\ ParseIdle /\ LexIdle

InitLexer ==
  LexInit /\ DictIdle /\ KindIdle /\ AstIdle /\ FunIdle /\ ParseIdle /\ IdIdle

SpecDict == InitDict /\ [][DictNext]_vars

SpecKind == InitKind /\ [][KindNext]_vars

SpecAst == InitAst /\ [][AstNext]_vars

SpecAstLife == InitAst /\ [][AstLifeNext]_vars

SpecFunType == InitFunType /\ [][FunNext]_vars

SpecScope == InitScope /\ [][ScopeNext]_vars

\* parse() is a call that runs to its end
SpecParser == InitParser /\ [][ParseNext]_vars /\ WF_vars(ParseNext)

SpecIdCache == InitIdCache /\ [][IdNext]_vars

SpecLexer == InitLexer /\ [][LexNextStep]_vars

(***************************************************************************)
(* Claims about OrderedDict                                                *)
(***************************************************************************)
\* the positions of the append(name, ...) calls made so far
CallsOf(name) == {i \in 1..Len(calls) : calls[i].name = name}

Min(S) == CHOOSE x \in S : \A y \in S : x <= y

\* the node passed in the first append(name, ...) call
FirstNode(name) == calls[Min(CallsOf(name))].node

\* C1: find(name) returns the node of the FIRST append(name, ...) call for
\* that name, whatever appends follow; the result of the last find call
\* made is that node too.
C1_FirstWins ==
  /\ \A name \in IdIndexes :
       CallsOf(name) # {} => find(dict, name) = FirstNode(name)
  /\ (found.name # UndefinedIdIndex /\ CallsOf(found.name) # {})
       => found.ret = FirstNode(found.name)

\* C1 witness: a name was appended twice with different nodes, other appends
\* were made, and a find of that name returned the first node.
C1_Witness ==
  \E i, j \in 1..Len(calls) :
    /\ i < j
    /\ calls[i].name = calls[j].name
    /\ calls[i].name # UndefinedIdIndex
    /\ calls[i].node # calls[j].node
    /\ CallsOf(calls[i].name) = {i, j}
    /\ Len(calls) > 2
    /\ found.name = calls[i].name
    /\ found.ret = calls[i].node

\* C2 (as claimed): get_nodes() has exactly one entry per append call, in
\* call order, repeated names included.
C2_EveryAppendKept ==
  /\ Len(get_nodes(dict)) = Len(calls)
  /\ \A i \in 1..Len(calls) : get_nodes(dict)[i] = calls[i].node

(***************************************************************************)
(* Claims about the classification predicates                              *)
(***************************************************************************)
\* the predicates that returned true for the node
TruePredicates == {p \in DOMAIN cres : cres[p]}

\* C6: at most one of is_type, is_value, is_stmt, is_scope and is_expr
\* returns true for a kind, and all of them return false for None.
C6_Disjoint ==
  /\ Cardinality(TruePredicates) <= 1
  /\ ckind = "None" => TruePredicates = {}

\* C6 witness: all five predicates were called on a FunType node and only
\* is_type returned true.
C6_Witness ==
  /\ DOMAIN cres = Predicates
  /\ ckind = "FunType"
  /\ TruePredicates = {"is_type"}

\* the type kinds the specification lists
ListedTypeKinds ==
  {"I8Type", "I16Type", "I32Type", "U8Type", "U16Type", "U32Type",
   "F32Type", "F64Type", "StructType", "UnionType", "FunType",
   "FunTypeWithNamedParams"}

\* C7 (as claimed): is_type returns true for exactly the listed type kinds,
\* FunTypeWithNamedParams among them.
C7_IsTypeExact ==
  "is_type" \in DOMAIN cres => (cres["is_type"] <=> ckind \in ListedTypeKinds)

(***************************************************************************)
(* Claims about the Ast arena                                              *)
(***************************************************************************)
\* C3: the node at the handle create(k) returns, fresh slot or reused one,
\* has kind k and an all-zero payload: no field value and no owned-list
\* pointer of an earlier occupant of the slot.
C3_CreateZeroed ==
  astcall.op = "create" => get_node(astcall.index) = AstNode(astcall.kind)

\* C3 witness: a node that owned a list was written to twice and removed,
\* its list was freed, and create(Function) then reused its slot.
C3_Witness ==
  /\ astcall = Call("create", 0, "Function", TRUE)
  /\ Len(nodes) = 1
  /\ ncalls = 5
  /\ Len(vectors) = 1
  /\ vectors[1].state = "free"

\* the heap objects allocated by node h that are still allocated
StillAllocated(h) ==
  {<<"vector", p>> : p \in {q \in DOMAIN vectors :
       vectors[q].state = "live" /\ vectors[q].owner = h}}
    \cup
  {<<"dict", p>> : p \in {q \in DOMAIN dicts :
       dicts[q].state = "live" /\ dicts[q].owner = h}}

\* C4 (as claimed): remove(h) resets the slot to None, pushes h onto the
\* free list and leaves no structure allocated through add_param_type,
\* add_name, add_stmt or add_node for h still allocated, for every kind.
C4_RemoveReleasesAll ==
  astcall.op = "remove" =>
    /\ get_node(astcall.index).kind = "None"
    /\ removed # <<>> /\ removed[Len(removed)] = astcall.index
    /\ StillAllocated(astcall.index) = {}

\* the node h and the heap objects its pointers lead to
Owned(h) ==
  LET n == get_node(h) IN
  [node        |-> n,
   param_types |-> IF n.param_types = 0 THEN <<>> ELSE vectors[n.param_types],
   names       |-> IF n.names = 0 THEN <<>> ELSE vectors[n.names],
   stmts       |-> IF n.stmts = 0 THEN <<>> ELSE vectors[n.stmts],
   dict        |-> IF n.dict = 0 THEN <<>> ELSE dicts[n.dict]]

\* C5: a create call, and a remove call on another handle, leave a live
\* node as it was: its kind, its payload and what it owns are unchanged and
\* it stays live.
C5_LiveNodeUntouched ==
  [][\A h \in live :
       (astcall'.op = "create"
          \/ (astcall'.op = "remove" /\ astcall'.index # h))
         => (h \in live' /\ Owned(h)' = Owned(h))]_vars

\* C5 witness: a FunType node that owns a parameter list is live while
\* create reuses the slot of another, removed node.
C5_Witness ==
  /\ astcall.op = "create"
  /\ astcall.reused
  /\ \E h \in live \ {astcall.index} :
       /\ get_node(h).kind = "FunType"
       /\ get_node(h).param_types # 0

(***************************************************************************)
(* Claims about IdCache                                                    *)
(***************************************************************************)
\* C8: two get(text, length) calls return the same handle if and only if
\* their texts are equal; a handle issued keeps denoting its text; and
\* get(get(text, length)) returns exactly the text and its length.
C8_InternRoundTrip ==
  /\ \A x, y \in issued : x.index = y.index <=> x.text = y.text
  /\ \A x \in issued :
       /\ x.index + 1 \in 1..Len(m_ids)
       /\ m_ids[x.index + 1] = [str |-> x.text, length |-> Len(x.text)]
  /\ idcall.op = "get_id" =>
       \A x \in issued :
         x.index = idcall.index =>
           idcall.str = x.text /\ idcall.length = Len(x.text)

\* C8 witness: two different texts of the same length and with the same
\* first byte were interned and the second handle issued was looked up.
C8_Witness ==
  /\ \E x, y \in issued :
       x.text # y.text /\ Len(x.text) = Len(y.text) /\ x.text[1] = y.text[1]
  /\ idcall.op = "get_id"
  /\ idcall.index = 1

(***************************************************************************)
(* Claims about the Lexer                                                  *)
(***************************************************************************)
\* C9: once next() has returned the end-of-input token, every later next()
\* returns an end-of-input token, and it is the same token instance as the
\* first one; no other token is produced after it.
C9_EofAbsorbing ==
  [][(eofs >= 1 /\ lexret'.op = "next")
       => (TokenAt(lexret.token)'.kind = "Eof" /\ lexret'.token = eofret)]_vars

\* C9 witness: after a token was produced, next() returned the end-of-input
\* token twice.
C9_Witness ==
  /\ tokens # <<>>
  /\ eofs = 2
  /\ lexret = [op |-> "next", token |-> eofret]

\* the text between the quotes of the string literal that ends at pos
LiteralText ==
  LET quotes == {q \in 1..(pos - 1) : input[q] = Quote}
      open == CHOOSE q \in quotes : \A r \in quotes : r <= q
  IN  SubSeq(input, open + 1, pos - 1)

\* C10: last() returns the very token the last next() returned; a last()
\* call leaves the lexer where it was, so that the following next() returns
\* what it would have returned; and a string literal read through last()
\* carries the text lexed.
C10_LastPeeks ==
  /\ [](lexret.op = "last" =>
          /\ lexret.token = nextret
          /\ TokenAt(lexret.token).kind = "StringLiteral" =>
                TokenAt(lexret.token).value = LiteralText)
  /\ [][lexret'.op = "last" =>
          (Scan' = Scan /\ tokens' = tokens /\ failed' = failed)]_vars

\* C10 witness: last() was called after next() returned a string literal
\* token with a non-empty text, lexed after another token.
C10_Witness ==
  /\ lexret.op = "last"
  /\ Len(tokens) = 2
  /\ lexret.token = 2
  /\ tokens[2].kind = "StringLiteral"
  /\ tokens[2].value # <<>>

(***************************************************************************)
(* Claims about function-type nodes                                        *)
(***************************************************************************)
\* C11: a function-type node read back through get_node has the name and
\* the return-type handle last written to it, and its parameter list holds
\* exactly the parameter types added, in insertion order, each resolving
\* to a node of the kind it had when it was added; a handle added more
\* than once occurs as often.
C11_FunTypeRoundTrip ==
  \A h \in Handles :
    get_node(h).kind \in FunTypeKinds =>
      LET n == get_node(h)
          w == wrote[h + 1]
      IN
      /\ w.name # UndefinedIdIndex => n.name = w.name
      /\ w.return_type # UndefinedAstNodeIndex =>
           n.return_type = w.return_type
      /\ w.params # <<>> =>
           /\ n.param_types # 0
           /\ vectors[n.param_types].state = "live"
           /\ Len(vectors[n.param_types].elems) = Len(w.params)
           /\ \A i \in 1..Len(w.params) :
                /\ vectors[n.param_types].elems[i] = w.params[i].type
                /\ get_node(vectors[n.param_types].elems[i]).kind
                     = w.params[i].kind

\* C11 witness: the state TEST(Ast, FunType) reads back: an I32Type node,
\* and a FunType node with a name, that return type and the same parameter
\* type added twice.
C11_Witness ==
  /\ Len(nodes) = 2
  /\ get_node(0).kind = "I32Type"
  /\ get_node(1).kind = "FunType"
  /\ wrote[2] = [name |-> 1, return_type |-> 0,
                 params |-> <<[type |-> 0, kind |-> "I32Type"],
                              [type |-> 0, kind |-> "I32Type"]>>]
  /\ get_node(1).name = 1
  /\ get_node(get_node(1).return_type).kind = "I32Type"
  /\ vectors[get_node(1).param_types].elems = <<0, 0>>

(***************************************************************************)
(* Claims about the Parser                                                 *)
(***************************************************************************)
\* every parameter has a name and no two parameters have the same name
DistinctNames ==
  /\ \A i \in 1..Len(decl) : decl[i].name # UndefinedIdIndex
  /\ \A i, j \in 1..Len(decl) : decl[i].name = decl[j].name => i = j

\* the dictionary of the Function node parse() built
FunctionDict == dicts[get_node(fun_idx).dict].d

\* C12: parsing a function declaration whose parameters have pairwise
\* distinct names completes without error, and then get_nodes() of the
\* Function scope's dictionary lists exactly one LocalVariable node per
\* parameter, in source order, each with the parameter's name and type,
\* and find(name) returns that parameter's node.
C12_ParamsRegistered ==
  /\ [](DistinctNames => pstate # "error")
  /\ DistinctNames ~> pstate = "done"
  /\ []((DistinctNames /\ pstate = "done" /\ decl # <<>>) =>
          /\ get_node(fun_idx).kind = "Function"
          /\ get_node(fun_idx).dict # 0
          /\ Len(get_nodes(FunctionDict)) = Len(decl)
          /\ \A i \in 1..Len(decl) :
               LET v == get_nodes(FunctionDict)[i] IN
               /\ get_node(v).kind = "LocalVariable"
               /\ get_node(v).name = decl[i].name
               /\ get_node(get_node(v).type).kind = decl[i].type
               /\ find(FunctionDict, decl[i].name) = v)

\* C12 witness: the declaration of TEST(Parser, Simple), an I8Type
\* parameter and an I32Type parameter of different names, was parsed to
\* its end and both parameters are in the dictionary.
C12_Witness ==
  /\ pstate = "done"
  /\ Len(decl) = 2
  /\ decl[1].type = "I8Type" /\ decl[2].type = "I32Type"
  /\ DistinctNames
  /\ Len(get_nodes(FunctionDict)) = 2
  /\ find(FunctionDict, decl[2].name) = get_nodes(FunctionDict)[2]

(***************************************************************************)
(* Claims about unnamed members                                            *)
(***************************************************************************)
\* the insertion a step makes, if it makes one
Inserted == calls'[Len(calls')]

\* C13: an unnamed insertion, add_node(node) with the undefined name or
\* append(node) on the dictionary, appends node to the end of get_nodes()
\* and leaves find(n) as it was for every name n.
C13_UnnamedKeepsMapping ==
  [][(Len(calls') = Len(calls) + 1 /\ Inserted.name = UndefinedIdIndex) =>
       /\ get_nodes(ScopeDict)' = Append(get_nodes(ScopeDict), Inserted.node)
       /\ \A n \in IdIndexes \cup {UndefinedIdIndex} :
            find(ScopeDict, n)' = find(ScopeDict, n)]_vars

\* C13 witness: two unnamed members were added after a named one, and the
\* named one is still found.
C13_Witness ==
  /\ Len(calls) = 3
  /\ calls[1].name = 1
  /\ calls[2].name = UndefinedIdIndex
  /\ calls[3].name = UndefinedIdIndex
  /\ calls[2].node # calls[1].node
  /\ get_nodes(ScopeDict) = <<calls[1].node, calls[2].node, calls[3].node>>
  /\ find(ScopeDict, 1) = calls[1].node

(***************************************************************************)
(* Claims about slot reuse and ownership in the Ast arena                  *)
(***************************************************************************)
\* C14: remove pushes its handle onto the end of the free list; a create
\* call made while the free list is not empty returns the handle at its
\* end, the one removed most recently, takes it off the list and leaves
\* the node store at its size; a create call made while the free list is
\* empty appends one slot and returns the size the store had.  The store
\* size is the number of create calls made while the free list was empty.
C14_ReusePolicy ==
  /\ [](Len(nodes) = fresh)
  /\ [][/\ astcall'.op = "remove" =>
             removed' = Append(removed, astcall'.index)
        /\ (astcall'.op = "create" /\ removed # <<>>) =>
             /\ astcall'.index = removed[Len(removed)]
             /\ removed' = SubSeq(removed, 1, Len(removed) - 1)
             /\ Len(nodes') = Len(nodes)
        /\ (astcall'.op = "create" /\ removed = <<>>) =>
             /\ astcall'.index = Len(nodes)
             /\ removed' = <<>>
             /\ Len(nodes') = Len(nodes) + 1]_vars

\* C14 witness: two nodes were removed, and create returned the one
\* removed last and left the other on the free list.
C14_Witness ==
  /\ astcall.op = "create"
  /\ astcall.reused
  /\ Len(nodes) = 2
  /\ fresh = 2
  /\ Len(removed) = 1
  /\ removed[1] # astcall.index
  /\ live = {astcall.index}

\* C16: with remove called on live handles only, the free list holds no
\* handle twice, every slot on it has kind None, the live handles and the
\* handles on the free list are disjoint and make up the whole index range
\* of the node store, and create never returns a handle that is live.
C16_ArenaPartition ==
  /\ [](/\ Cardinality(Range(removed)) = Len(removed)
        /\ \A h \in Range(removed) : get_node(h).kind = "None"
        /\ live \cap Range(removed) = {}
        /\ live \cup Range(removed) = Handles)
  /\ [][astcall'.op = "create" =>
          (astcall'.index \notin live /\ astcall'.index \in live')]_vars

\* C16 witness: of three nodes created two were removed, the second one
\* last, and one is still live.
C16_Witness ==
  /\ astcall.op = "remove"
  /\ Len(nodes) = 3
  /\ Len(removed) = 2
  /\ removed[2] = astcall.index
  /\ Cardinality(live) = 1

\* the lists node n holds a pointer to
VectorPointers(n) == {n.param_types, n.names, n.stmts} \ {0}

\* C17: no owned structure is released twice, whatever calls are made and
\* whenever the arena is destroyed: delete never reaches a cell that is
\* not allocated; a removed or destroyed slot holds no pointer; every
\* pointer a live node holds leads to an allocated structure that this
\* node allocated (so no two nodes hold the same structure), and no two
\* pointers of a node lead to the same structure.  The
\* remove, or the arena's destruction, of a FunTypeWithNamedParams node
\* releases its name list and its parameter-type list, both allocated
\* until then.
C17_ReleasedOnce ==
  /\ [](/\ \A p \in DOMAIN vectors : vectors[p].state # "double"
        /\ \A p \in DOMAIN dicts : dicts[p].state # "double"
        /\ \A h \in Handles \ live :
             VectorPointers(get_node(h)) = {} /\ get_node(h).dict = 0
        /\ \A h \in live :
             LET n == get_node(h) IN
             /\ \A p \in VectorPointers(n) :
                  vectors[p].state = "live" /\ vectors[p].owner = h
             /\ n.dict # 0 =>
                  dicts[n.dict].state = "live" /\ dicts[n.dict].owner = h
             /\ n.param_types # 0 => n.param_types \notin {n.names, n.stmts}
             /\ n.names # 0 => n.names # n.stmts)
  /\ [][\A h \in live :
          (/\ get_node(h).kind = "FunTypeWithNamedParams"
           /\ \/ astcall'.op = "remove" /\ astcall'.index = h
              \/ astcall'.op = "destroy") =>
            \A p \in {get_node(h).names, get_node(h).param_types} \ {0} :
              vectors[p].state = "live" /\ vectors'[p].state = "free"]_vars

\* C17 witness: a node that owned a list was removed, which released the
\* list, its slot was reused by create, and the arena was destroyed.
C17_Witness ==
  /\ astcall.op = "destroy"
  /\ ncalls = 4
  /\ Len(nodes) = 1
  /\ removed = <<>>
  /\ Len(vectors) = 1
  /\ vectors[1].state = "free"

(***************************************************************************)
(* Further claims about OrderedDict                                        *)
(***************************************************************************)
\* C15: find(name) returns UndefinedAstNodeIndex for every name that no
\* append(name, ...) call was made with, and so did the last find call if
\* it was made with such a name; an append(name, node) call leaves the
\* result of find as it was for every other name.
C15_FindUndefined ==
  /\ [](/\ \A name \in IdIndexes :
             CallsOf(name) = {} => find(dict, name) = UndefinedAstNodeIndex
        /\ (found.name # UndefinedIdIndex /\ CallsOf(found.name) = {})
             => found.ret = UndefinedAstNodeIndex)
  /\ [][(Len(calls') = Len(calls) + 1
           /\ calls'[Len(calls')].name # UndefinedIdIndex) =>
          \A n \in IdIndexes \ {calls'[Len(calls')].name} :
            find(dict, n)' = find(dict, n)]_vars

\* C15 witness: after named and unnamed appends, none of them with name 1,
\* find(1) returned the undefined handle.
C15_Witness ==
  /\ Len(calls) = 3
  /\ calls[1].name = 0
  /\ calls[2].name = UndefinedIdIndex
  /\ calls[3].name = 0
  /\ found = [name |-> 1, ret |-> UndefinedAstNodeIndex]

\* C18: every node handle in the name mapping occurs in get_nodes(); there
\* are at most as many mapped names as entries of get_nodes(); and every
\* step leaves the previous get_nodes() as a prefix of the new one and
\* every mapped name mapped to the node it was mapped to.
C18_AppendOnly ==
  /\ [](/\ \A n \in DOMAIN dict.m_map :
             dict.m_map[n] \in Range(get_nodes(dict))
        /\ Cardinality(DOMAIN dict.m_map) <= Len(get_nodes(dict)))
  /\ [][/\ Len(get_nodes(dict)') >= Len(get_nodes(dict))
        /\ SubSeq(get_nodes(dict)', 1, Len(get_nodes(dict))) = get_nodes(dict)
        /\ \A n \in DOMAIN dict.m_map :
             n \in DOMAIN dict'.m_map /\ dict'.m_map[n] = dict.m_map[n]]_vars

\* C18 witness: a named append, an unnamed one and a named one of another
\* name were made: two names are mapped and get_nodes() has three entries.
C18_Witness ==
  /\ Len(calls) = 3
  /\ calls[2].name = UndefinedIdIndex
  /\ calls[2].node # calls[1].node
  /\ Cardinality(DOMAIN dict.m_map) = 2
  /\ get_nodes(dict) = <<calls[1].node, calls[2].node, calls[3].node>>

====
